---- MODULE Spec2Model ----
(***************************************************************************)
(* Face-identification core of the attendance tracker:                     *)
(*   attendance/utils.py   FaceRecognizer (detector, validator, extractor,  *)
(*                         enrollment index, matcher)                       *)
(*   attendance/views.py   verify_user_face, register_face_api,             *)
(*                         delete_user, clear_company_data                  *)
(*   attendance/models.py  FaceProfile                                      *)
(*                                                                         *)
(* Embeddings are unit vectors.  They are modelled as integer vectors of    *)
(* Euclidean length 5, so a dot product d stands for the cosine d / 25 and  *)
(* every comparison of the code is exact integer arithmetic.                *)
(***************************************************************************)
EXTENDS Integers, Sequences, FiniteSets, TLC

\* ------------------------------------------------------------------ bounds

\* Number of user accounts (ids 1..MaxUser); user 1 is the organization admin.
MaxUser == 2

\* Number of request worker threads of the hosting server.
MaxWorker == 2

\* Largest number of candidate boxes the detector reports for one frame.
MaxBoxes == 2

\* Number of clock ticks of the working day that is followed.
MaxClock == 2

\* ------------------------------------------------------- program constants

\* getattr(settings, 'FACE_RECOGNITION_TOLERANCE', 0.8), in tenths.
ToleranceTenths == 8

\* detect_faces keeps a box when prob > 0.95; confidences are in hundredths.
ConfidenceFloor == 95

\* process_frame: a face must span at least 0.2 of the frame, i.e. 1/5.
MinFaceFraction == 5

\* get_face_embedding pads the box by int(width * 0.1), i.e. width \div 10.
PaddingDivisor == 10

\* Python's None where an identity (a positive primary key) is expected.
None == 0

\* Squared length of a modelled unit vector: the scale of every dot product.
UnitSq == 5 * 5

Users == 1 .. MaxUser

Workers == 1 .. MaxWorker

\* ---------------------------------------------------------------- vectors

\* Embeddings the extractor can produce (all of length 5, i.e. unit norm):
\* <<5,0>>.<<4,3>> = 20 is a cosine of exactly 0.8, <<4,3>>.<<3,4>> = 24 is
\* 0.96 and <<5,0>>.<<3,4>> = 15 is 0.6.
Embeddings == { <<5, 0>>, <<4, 3>>, <<3, 4>> }

\* The extractor's answer when crop, resize or the network fails (None).
NoEmbedding == << >>

\* np.dot of two vectors of the same length.
RECURSIVE DotFrom(_, _, _)
DotFrom(a, b, i) ==
    IF i > Len(a) THEN 0 ELSE a[i] * b[i] + DotFrom(a, b, i + 1)

np_dot(a, b) == DotFrom(a, b, 1)

\* np.dot raises ValueError on vectors of different lengths.
np_dot_raises(a, b) == Len(a) # Len(b)

\* similarity > threshold, with similarity = d / UnitSq and threshold = t / 10.
ExceedsOrEqualsThreshold(d) == d * 10 >= ToleranceTenths * UnitSq

ExceedsThreshold(d) == d * 10 > ToleranceTenths * UnitSq

\* ------------------------------------------------------ pickled descriptors

\* FaceProfile.face_encoding is a nullable binary column.  "pickle" bytes were
\* written by pickle.dumps, "corrupt" bytes make pickle.loads raise, "null"
\* is the empty column.
pickle_dumps(vec) == [blob |-> "pickle", vec |-> vec]

NullBlob == [blob |-> "null", vec |-> NoEmbedding]

CorruptBlob == [blob |-> "corrupt", vec |-> NoEmbedding]

pickle_loads_raises(bytes) == bytes.blob # "pickle"

pickle_loads(bytes) == bytes.vec

\* Truth value of the column in `if profile.face_encoding`.
Truthy(bytes) == bytes.blob # "null"

\* ------------------------------------------------------------------ frames

\* A decoded frame: its shape (height, width, channels), what the MTCNN
\* detector finds in it (boxes <<x1, y1, x2, y2>> with a confidence in
\* hundredths), and the embedding the network yields for the face in it
\* (NoEmbedding: it fails).
FullShape == <<100, 100, 3>>

\* The shape of a frame without colour channels.
GrayShape == <<100, 100>>

BigBox == <<20, 20, 80, 80>>

SmallBox == <<40, 40, 55, 55>>

NarrowBox == <<40, 20, 55, 80>>

FlatBox == <<20, 40, 80, 55>>

Boxes == { BigBox, SmallBox, NarrowBox, FlatBox }

Probs == { ConfidenceFloor, ConfidenceFloor + 2 }

Detections == [box : Boxes, prob : Probs]

DetectionLists == UNION { [1 .. n -> Detections] : n \in 0 .. MaxBoxes }

EmptyFrame == [shape |-> <<0, 0, 3>>, dets |-> << >>, face |-> NoEmbedding]

Frames ==
    { EmptyFrame } \cup
    [shape : { FullShape },
     dets  : DetectionLists,
     face  : Embeddings \cup { NoEmbedding }]

\* frame is None or frame.size == 0
IsEmptyFrame(frame) == frame.shape[1] * frame.shape[2] = 0

\* cv2.cvtColor(frame, cv2.COLOR_BGR2RGB) raises on a frame that does not have
\* three channels.
cvtColor_raises(frame) == Len(frame.shape) # 3

\* ------------------------------------------------------------ face detector

\* [box for box, prob in zip(boxes, probs) if prob > floor]
RECURSIVE BoxesAbove(_, _)
BoxesAbove(dets, floor) ==
    IF dets = << >> THEN << >>
    ELSE IF Head(dets).prob > floor
         THEN <<Head(dets).box>> \o BoxesAbove(Tail(dets), floor)
         ELSE BoxesAbove(Tail(dets), floor)

\* A detector that also keeps the boxes whose confidence equals the floor.
detect_faces_inclusive(frame) ==
    IF IsEmptyFrame(frame) THEN << >>
    ELSE IF cvtColor_raises(frame) THEN << >>
    ELSE BoxesAbove(frame.dets, ConfidenceFloor - 1)

\* A detector whose failure leaves the boxes found so far to the caller.
detect_faces_unguarded(frame) ==
    IF IsEmptyFrame(frame) THEN << >>
    ELSE BoxesAbove(frame.dets, ConfidenceFloor)

detect_faces(frame) ==
    IF IsEmptyFrame(frame) THEN << >>
    ELSE IF cvtColor_raises(frame) THEN << >>
    ELSE BoxesAbove(frame.dets, ConfidenceFloor)

\* ---------------------------------------------------------- frame validator

ErrEmpty == "Empty image received"

ErrNoFaces == "No faces detected. Please ensure your face is visible and well-lit"

ErrMultiple == "Multiple faces detected. Please ensure only your face is in the frame"

ErrCloser == "Please move closer to the camera"

ErrCenter == "Please center your face in the frame"

Rejected(error) == [is_valid |-> FALSE, error |-> error]

Area(box) == (box[3] - box[1]) * (box[4] - box[2])

\* max(boxes, key=area): the first box of the largest area.
RECURSIVE MaxAreaFrom(_, _, _)
MaxAreaFrom(boxes, i, best) ==
    IF i > Len(boxes) THEN best
    ELSE MaxAreaFrom(boxes, i + 1,
                     IF Area(boxes[i]) > Area(best) THEN boxes[i] ELSE best)

MaxAreaBox(boxes) == MaxAreaFrom(boxes, 2, boxes[1])

\* Size checks that look at the width of the box before its height.
SizeVerdictWidthFirst(frame, boxes, main_box) ==
    LET face_height == main_box[4] - main_box[2]
        face_width  == main_box[3] - main_box[1]
    IN  IF face_width * MinFaceFraction < frame.shape[2] THEN Rejected(ErrCenter)
        ELSE IF face_height * MinFaceFraction < frame.shape[1] THEN Rejected(ErrCloser)
        ELSE [is_valid      |-> TRUE,
              face_location |-> main_box,
              face_count    |-> Len(boxes)]

\* The size checks and the accepting verdict for the chosen box.
SizeVerdict(frame, boxes, main_box) ==
    LET face_height == main_box[4] - main_box[2]
        face_width  == main_box[3] - main_box[1]
    IN  IF face_height * MinFaceFraction < frame.shape[1] THEN Rejected(ErrCloser)
        ELSE IF face_width * MinFaceFraction < frame.shape[2] THEN Rejected(ErrCenter)
        ELSE [is_valid      |-> TRUE,
              face_location |-> main_box,
              face_count    |-> Len(boxes)]

\* A validator that arbitrates between several faces by taking the largest.
process_frame_largest(frame) ==
    IF IsEmptyFrame(frame) THEN Rejected(ErrEmpty)
    ELSE LET boxes == detect_faces(frame)
         IN  IF Len(boxes) = 0 THEN Rejected(ErrNoFaces)
             ELSE SizeVerdict(frame, boxes, MaxAreaBox(boxes))

process_frame(frame) ==
    IF IsEmptyFrame(frame) THEN Rejected(ErrEmpty)
    ELSE LET boxes == detect_faces(frame)
         IN  IF Len(boxes) = 0 THEN Rejected(ErrNoFaces)
             ELSE IF Len(boxes) > 1 THEN Rejected(ErrMultiple)
             ELSE SizeVerdict(frame, boxes, MaxAreaBox(boxes))

\* result.get('face_count', 0)
GetFaceCount(result) ==
    IF "face_count" \in DOMAIN result THEN result.face_count ELSE 0

\* -------------------------------------------------------- embedding extractor

Max(a, b) == IF a > b THEN a ELSE b

Min(a, b) == IF a < b THEN a ELSE b

get_face_embedding(frame, box) ==
    IF IsEmptyFrame(frame) THEN NoEmbedding
    ELSE LET padding == (box[3] - box[1]) \div PaddingDivisor
             x1 == Max(0, box[1] - padding)
             y1 == Max(0, box[2] - padding)
             x2 == Min(frame.shape[2], box[3] + padding)
             y2 == Min(frame.shape[1], box[4] + padding)
         IN  IF x2 <= x1 \/ y2 <= y1 THEN NoEmbedding
             ELSE IF cvtColor_raises(frame) THEN NoEmbedding
             ELSE frame.face

\* --------------------------------------------------- enrollment index (dict)

\* self.known_faces: a dict in insertion order, user_id -> {encoding, user_id},
\* modelled as the sequence of its items.
IndexKeys(known_faces) == { known_faces[i].user_id : i \in 1 .. Len(known_faces) }

IndexPos(known_faces, user_id) ==
    CHOOSE i \in 1 .. Len(known_faces) : known_faces[i].user_id = user_id

\* self.known_faces[user_id]['encoding']
IndexEncoding(known_faces, user_id) ==
    known_faces[IndexPos(known_faces, user_id)].encoding

\* A list in place of the dict: every assignment adds an item.
ListAppend(known_faces, user_id, encoding) ==
    Append(known_faces, [user_id |-> user_id, encoding |-> encoding])

\* self.known_faces[user_id] = {...}: a new key is appended, an existing key
\* keeps its place.
DictSet(known_faces, user_id, encoding) ==
    LET item == [user_id |-> user_id, encoding |-> encoding]
    IN  IF user_id \in IndexKeys(known_faces)
        THEN [known_faces EXCEPT ![IndexPos(known_faces, user_id)] = item]
        ELSE Append(known_faces, item)

\* ------------------------------------------------------------------ matcher

NoLocation == << >>

\* `if similarity > best_similarity`
ImprovesOrTies(similarity, best_similarity) == similarity >= best_similarity

Improves(similarity, best_similarity) == similarity > best_similarity

\* The scan of identify_user over known_faces.items(), from item i on.
RECURSIVE BestFrom(_, _, _, _, _)
BestFrom(known_faces, i, embedding, best_match, best_similarity) ==
    IF i > Len(known_faces)
    THEN [best_match |-> best_match, best_similarity |-> best_similarity,
          raised |-> FALSE]
    ELSE IF np_dot_raises(embedding, known_faces[i].encoding)
    THEN [best_match |-> best_match, best_similarity |-> best_similarity,
          raised |-> TRUE]
    ELSE LET similarity == np_dot(embedding, known_faces[i].encoding)
         IN  IF Improves(similarity, best_similarity)
             THEN BestFrom(known_faces, i + 1, embedding,
                           known_faces[i].user_id, similarity)
             ELSE BestFrom(known_faces, i + 1, embedding,
                           best_match, best_similarity)

\* The face location a matcher call works on: the caller's, or the validator's.
LocationFor(frame, face_location) ==
    IF face_location # NoLocation THEN face_location
    ELSE LET result == process_frame(frame)
         IN  IF result.is_valid THEN result.face_location ELSE NoLocation

identify_user(known_faces, frame, face_location) ==
    IF Len(known_faces) = 0 THEN None
    ELSE LET location == LocationFor(frame, face_location)
         IN  IF location = NoLocation THEN None
             ELSE LET embedding == get_face_embedding(frame, location)
                  IN  IF embedding = NoEmbedding THEN None
                      ELSE LET best == BestFrom(known_faces, 1, embedding,
                                                None, -UnitSq)
                           IN  IF best.raised THEN None
                               ELSE IF ExceedsThreshold(best.best_similarity)
                                    THEN best.best_match
                                    ELSE None

\* An identification that extracts an embedding from the largest detected box
\* before it looks at the verdict of the validator.
identify_user_extracts_unvalidated(known_faces, frame, face_location) ==
    Len(known_faces) # 0 /\ detect_faces(frame) # << >>

\* identify_user gets as far as its call of get_face_embedding.
identify_user_extracts(known_faces, frame, face_location) ==
    IF Len(known_faces) = 0 THEN FALSE
    ELSE LocationFor(frame, face_location) # NoLocation

\* A verification that accepts whenever the frame matches anybody enrolled.
verify_user_face_any(known_faces, user_id, frame, face_location) ==
    identify_user(known_faces, frame, face_location) # None

verify_user_face(known_faces, user_id, frame, face_location) ==
    IF user_id \notin IndexKeys(known_faces) THEN FALSE
    ELSE LET location == LocationFor(frame, face_location)
         IN  IF location = NoLocation THEN FALSE
             ELSE LET embedding == get_face_embedding(frame, location)
                      stored_encoding == IndexEncoding(known_faces, user_id)
                  IN  IF embedding = NoEmbedding THEN FALSE
                      ELSE IF np_dot_raises(embedding, stored_encoding) THEN FALSE
                      ELSE ExceedsThreshold(np_dot(embedding, stored_encoding))

\* verify_user_face gets as far as its call of get_face_embedding.
verify_user_face_extracts(known_faces, user_id, frame, face_location) ==
    IF user_id \notin IndexKeys(known_faces) THEN FALSE
    ELSE LocationFor(frame, face_location) # NoLocation

\* ------------------------------------------------- persisted FaceProfile rows

\* FaceProfile.objects.all(): the rows in Meta.ordering, newest update first.
\* last_used is 0 for NULL and 1 for a time stamp.
HasProfile(rows, user_id) == \E i \in 1 .. Len(rows) : rows[i].user_id = user_id

ProfileOf(rows, user_id) ==
    rows[CHOOSE i \in 1 .. Len(rows) : rows[i].user_id = user_id]

\* views.verify_user_face against the first profile row that matches anybody.
views_verify_user_face_any(rows, user_id, frame) ==
    \E i \in 1 .. Len(rows) :
        /\ ~pickle_loads_raises(rows[i].face_encoding)
        /\ process_frame(frame).is_valid
        /\ LET embedding ==
                   get_face_embedding(frame, process_frame(frame).face_location)
           IN  /\ embedding # NoEmbedding
               /\ ~np_dot_raises(embedding, pickle_loads(rows[i].face_encoding))
               /\ ExceedsThreshold(
                      np_dot(embedding, pickle_loads(rows[i].face_encoding)))

\* views.verify_user_face(user, frame): the value it returns.
views_verify_user_face(rows, user_id, frame) ==
    IF ~HasProfile(rows, user_id) THEN FALSE
    ELSE IF ~Truthy(ProfileOf(rows, user_id).face_encoding) THEN FALSE
    ELSE LET result == process_frame(frame)
         IN  IF ~result.is_valid THEN FALSE
             ELSE IF GetFaceCount(result) > 1 THEN FALSE
             ELSE LET embedding == get_face_embedding(frame, result.face_location)
                      bytes == ProfileOf(rows, user_id).face_encoding
                  IN  IF embedding = NoEmbedding THEN FALSE
                      ELSE IF pickle_loads_raises(bytes) THEN FALSE
                      ELSE IF np_dot_raises(embedding, pickle_loads(bytes)) THEN FALSE
                      ELSE ExceedsThreshold(np_dot(embedding, pickle_loads(bytes)))

\* views.verify_user_face gets as far as its call of get_face_embedding.
views_verify_user_face_extracts(rows, user_id, frame) ==
    IF ~HasProfile(rows, user_id) THEN FALSE
    ELSE IF ~Truthy(ProfileOf(rows, user_id).face_encoding) THEN FALSE
    ELSE LET result == process_frame(frame)
         IN  IF ~result.is_valid THEN FALSE
             ELSE GetFaceCount(result) <= 1

\* One iteration of the loop of load_known_faces on one row.
LoadRow(known_faces, profile) ==
    IF ~Truthy(profile.face_encoding)
    THEN [known_faces |-> known_faces, raised |-> FALSE]
    ELSE IF pickle_loads_raises(profile.face_encoding)
    THEN [known_faces |-> known_faces, raised |-> TRUE]
    ELSE [known_faces |-> DictSet(known_faces, profile.user_id,
                                  pickle_loads(profile.face_encoding)),
          raised |-> FALSE]

\* An except branch that leaves the dict as the loop filled it.
KeepLoaded(known_faces) == known_faces

\* except Exception: self.known_faces = {}
ResetOnError(known_faces) == << >>

\* load_known_faces run alone (as the constructor runs it): the index it leaves.
RECURSIVE LoadFrom(_, _)
LoadFrom(known_faces, rows) ==
    IF rows = << >> THEN known_faces
    ELSE LET step == LoadRow(known_faces, Head(rows))
         IN  IF step.raised THEN ResetOnError(step.known_faces)
             ELSE LoadFrom(step.known_faces, Tail(rows))

load_known_faces(rows) == LoadFrom(<< >>, rows)

\* -------------------------------------------------------------------- state

VARIABLES
    users,        \* ids of the User rows that exist
    store,        \* the FaceProfile rows, newest update first
    known_faces,  \* face_recognizer.known_faces
    pc,           \* per worker: where its current request stands
    local,        \* per worker: the locals of its current request
    replaced,     \* the dict the last `self.known_faces = {}` replaced, while
                  \* that rebuild runs (history; the program does not read it)
    lastCall,     \* the call that completed in the last step, with its result
    attendances,  \* the Attendance rows of today, oldest first
    session,      \* ids of the users login() has opened a session for
    now           \* timezone.now(), in ticks

vars == <<users, store, known_faces, pc, local, replaced, lastCall,
          attendances, session, now>>

\* user.is_admin: the organization's administrator account.
is_admin(user_id) == user_id = 1

NoCall ==
    [op |-> "none", user_id |-> None, frame |-> EmptyFrame,
     face_location |-> NoLocation, verdict |-> Rejected(ErrEmpty),
     identity |-> None, ok |-> FALSE, extracted |-> FALSE,
     boxes |-> << >>, embedding |-> NoEmbedding, error |-> ""]

\* The locals of a request: the handler, the user it acts for, the decoded
\* frame, the rows load_known_faces still has to visit, the rows the open
\* transaction of clear_company_data has deleted, whether the row the
\* request's face_profile instance was inserted as has been deleted since,
\* the users whose Attendance rows the transaction has deleted, the action
\* posted to an attendance handler and the time the handler read.
Idle == [op |-> "none", user_id |-> None, frame |-> EmptyFrame,
         rows |-> << >>, deleted |-> {}, row_gone |-> FALSE,
         cleared |-> {}, action |-> "none", now |-> 0]

\* What the database can hold when the process starts: any rows, at most one
\* per user (OneToOneField), the descriptor of a row readable, corrupt or NULL.
StoredBlobs ==
    { pickle_dumps(e) : e \in Embeddings } \cup { CorruptBlob, NullBlob }

ProfileRows ==
    [user_id : Users, face_encoding : StoredBlobs, is_active : BOOLEAN,
     last_used : {0}]

InitStores ==
    { rows \in UNION { [1 .. n -> ProfileRows] : n \in 0 .. MaxUser } :
        \A i, j \in 1 .. Len(rows) : i # j => rows[i].user_id # rows[j].user_id }

\* Nobody has marked attendance or logged in yet.
NoAttendance ==
    /\ attendances = << >>
    /\ session = {}
    /\ now = 1

\* A fresh deployment: no FaceProfile yet; FaceRecognizer() has loaded nothing.
Init ==
    /\ users = Users
    /\ store = << >>
    /\ known_faces = << >>
    /\ pc = [w \in Workers |-> "idle"]
    /\ local = [w \in Workers |-> Idle]
    /\ replaced = << >>
    /\ lastCall = NoCall
    /\ NoAttendance

\* A process started on an existing database: FaceRecognizer.__init__ has run
\* load_known_faces on whatever rows it holds.
InitLoaded ==
    /\ users = Users
    /\ store \in InitStores
    /\ known_faces = load_known_faces(store)
    /\ pc = [w \in Workers |-> "idle"]
    /\ local = [w \in Workers |-> Idle]
    /\ replaced = << >>
    /\ lastCall = NoCall
    /\ NoAttendance

\* ------------------------------------------------- calls into the recognizer

Det(box) == [box |-> box, prob |-> ConfidenceFloor + 2]

\* Frames a matcher call is tried on: no face, one large face, one small
\* face, two faces; each with every embedding and with a failing extractor.
MatchFrames ==
    [shape : { FullShape },
     dets  : { << >>, <<Det(BigBox)>>, <<Det(SmallBox)>>,
               <<Det(BigBox), Det(SmallBox)>> },
     face  : Embeddings \cup { NoEmbedding }]

\* The face_location arguments a caller passes: none, or the validator's.
LocationsFor(frame) ==
    { NoLocation } \cup
    (IF process_frame(frame).is_valid
     THEN { process_frame(frame).face_location } ELSE {})

\* face_recognizer.detect_faces(frame)
DetectFacesOn(frames) ==
    \E frame \in frames :
        /\ lastCall' = [NoCall EXCEPT !.op = "detect_faces", !.frame = frame,
                                      !.boxes = detect_faces(frame)]
        /\ UNCHANGED <<attendances, session, now>>
        /\ UNCHANGED <<users, store, known_faces, pc, local, replaced>>

\* face_recognizer.get_face_embedding(frame, box)
GetFaceEmbeddingOn(frames) ==
    \E frame \in frames : \E box \in Boxes :
        /\ lastCall' = [NoCall EXCEPT !.op = "get_face_embedding",
                                      !.frame = frame, !.face_location = box,
                                      !.embedding =
                                          get_face_embedding(frame, box)]
        /\ UNCHANGED <<attendances, session, now>>
        /\ UNCHANGED <<users, store, known_faces, pc, local, replaced>>

\* face_recognizer.process_frame(frame)
ProcessFrameOn(frames) ==
    \E frame \in frames :
        /\ lastCall' = [NoCall EXCEPT !.op = "process_frame", !.frame = frame,
                                      !.verdict = process_frame(frame)]
        /\ UNCHANGED <<attendances, session, now>>
        /\ UNCHANGED <<users, store, known_faces, pc, local, replaced>>

ProcessFrameCall == ProcessFrameOn(Frames)

DetectFacesCall == DetectFacesOn(Frames)

\* A request is inside load_known_faces: the dict is being replaced and filled.
Rebuilding(w) == pc[w] \in { "load_reset", "load_query", "load_rows" }

\* A read of the dict that overlaps a rebuild can also fail: the dict changes
\* size under the scan of identify_user (RuntimeError), or loses the key
\* between the two reads of verify_user_face (KeyError); the handler's except
\* turns either into the negative answer.
RaceOutcomes == IF \E w \in Workers : Rebuilding(w) THEN BOOLEAN ELSE { FALSE }

\* face_recognizer.identify_user(frame, face_location)
IdentifyOn(frames) ==
    \E frame \in frames : \E face_location \in LocationsFor(frame) :
    \E raced \in RaceOutcomes :
        /\ lastCall' =
               [NoCall EXCEPT !.op = "identify_user", !.frame = frame,
                              !.face_location = face_location,
                              !.extracted =
                                  identify_user_extracts(known_faces, frame,
                                                         face_location),
                              !.identity =
                                  IF raced THEN None
                                  ELSE identify_user(known_faces, frame,
                                                     face_location)]
        /\ UNCHANGED <<attendances, session, now>>
        /\ UNCHANGED <<users, store, known_faces, pc, local, replaced>>

\* face_recognizer.verify_user_face(user_id, frame, face_location)
VerifyOn(frames) ==
    \E user_id \in Users : \E frame \in frames :
    \E face_location \in LocationsFor(frame) : \E raced \in RaceOutcomes :
        /\ lastCall' =
               [NoCall EXCEPT !.op = "verify_user_face", !.user_id = user_id,
                              !.frame = frame, !.face_location = face_location,
                              !.extracted =
                                  verify_user_face_extracts(known_faces, user_id,
                                                            frame, face_location),
                              !.ok = IF raced THEN FALSE
                                     ELSE verify_user_face(known_faces, user_id,
                                                           frame, face_location)]
        /\ UNCHANGED <<attendances, session, now>>
        /\ UNCHANGED <<users, store, known_faces, pc, local, replaced>>

IdentifyCall == IdentifyOn(MatchFrames)

VerifyCall == VerifyOn(MatchFrames)

\* A verification that does not write the time stamp.
KeepLastUsed(rows, user_id) == rows

\* user.face_profile.last_used = timezone.now(); save(update_fields=['last_used'])
\* (updated_at is not among the fields written, so the row keeps its place).
TouchLastUsed(rows, user_id) ==
    [i \in 1 .. Len(rows) |->
        IF rows[i].user_id = user_id THEN [rows[i] EXCEPT !.last_used = 1]
        ELSE rows[i]]

\* views.verify_user_face(user, frame) for an existing user
ViewsVerifyOn(frames) ==
    \E user_id \in users : \E frame \in frames :
        LET ok == views_verify_user_face(store, user_id, frame)
        IN  /\ lastCall' =
                   [NoCall EXCEPT !.op = "views_verify_user_face",
                                  !.user_id = user_id, !.frame = frame, !.ok = ok,
                                  !.extracted =
                                      views_verify_user_face_extracts(
                                          store, user_id, frame)]
            /\ store' = IF ok THEN TouchLastUsed(store, user_id) ELSE store
            /\ UNCHANGED <<attendances, session, now>>
            /\ UNCHANGED <<users, known_faces, pc, local, replaced>>

ViewsVerifyCall == ViewsVerifyOn(MatchFrames)

\* ------------------------------------------------------------ view handlers

\* The encoding face_recognition (dlib) computes in FaceProfile.save: a vector
\* of another dimension than the network's embeddings.
DlibEncoding == <<3, 4, 0>>

\* A frame with the given detections and the given face.
Frame(dets, face) == [shape |-> FullShape, dets |-> dets, face |-> face]

\* Frames with one large face: the validator accepts them.
ValidFrames == { Frame(<<Det(BigBox)>>, e) : e \in Embeddings }

\* Frames submitted for enrollment: the valid ones, and one each with no
\* face, with two faces, and with a face the extractor fails on.
EnrollFrames ==
    ValidFrames \cup
    { Frame(<< >>, <<5, 0>>),
      Frame(<<Det(BigBox), Det(SmallBox)>>, <<5, 0>>),
      Frame(<<Det(BigBox)>>, NoEmbedding) }

\* The enrollment frames of the many-worker server: two faces a cosine of
\* exactly 0.8 apart, and a frame with two faces.
ServerFrames ==
    { Frame(<<Det(BigBox)>>, <<5, 0>>), Frame(<<Det(BigBox)>>, <<4, 3>>),
      Frame(<<Det(BigBox), Det(SmallBox)>>, <<5, 0>>) }

WithoutUsers(rows, gone) == SelectSeq(rows, LAMBDA r : r.user_id \notin gone)

\* Rows an open transaction of clear_company_data has deleted stay locked
\* until it commits: another request's write to them waits.
Locked(user_id) == \E w \in Workers : user_id \in local[w].deleted

\* What a query of worker w sees: the committed rows, less its own deletions.
RowsSeenBy(w) == WithoutUsers(store, local[w].deleted)

\* The request of worker w ends with a response.
Respond(w, success) ==
    /\ pc' = [pc EXCEPT ![w] = "idle"]
    /\ local' = [local EXCEPT ![w] = Idle]
    /\ lastCall' = [NoCall EXCEPT !.op = local[w].op,
                                  !.user_id = local[w].user_id,
                                  !.frame = local[w].frame, !.ok = success,
                                  !.extracted =
                                      (local[w].op = "register_face_api")]

\* A request that is answered in its first step.
RespondAtOnce(op, user_id, frame, success, extracted) ==
    /\ lastCall' = [NoCall EXCEPT !.op = op, !.user_id = user_id,
                                  !.frame = frame, !.ok = success,
                                  !.extracted = extracted]
    /\ UNCHANGED <<pc, local>>

\* register_face_api gets as far as its call of get_face_embedding.
register_face_api_extracts(rows, user_id, frame) ==
    /\ ~HasProfile(rows, user_id)
    /\ ~IsEmptyFrame(frame)
    /\ process_frame(frame).is_valid
    /\ GetFaceCount(process_frame(frame)) <= 1

\* A registration that does not ask the validator about the frame.
RegistrationUnvalidated(rows, user_id, frame) ==
    /\ ~HasProfile(rows, user_id)
    /\ ~IsEmptyFrame(frame)

\* The checks of register_face_api before anything is written.
RegistrationAccepted(rows, user_id, frame) ==
    /\ ~HasProfile(rows, user_id)
    /\ ~IsEmptyFrame(frame)
    /\ process_frame(frame).is_valid
    /\ GetFaceCount(process_frame(frame)) <= 1
    /\ get_face_embedding(frame, process_frame(frame).face_location) # NoEmbedding

\* register_face_api, up to the extraction of the embedding.
RegisterBegin(w, frames) ==
    /\ pc[w] = "idle"
    /\ \E user_id \in users : \E frame \in frames :
         IF RegistrationAccepted(store, user_id, frame)
         THEN /\ pc' = [pc EXCEPT ![w] = "reg_image_save"]
              /\ local' = [local EXCEPT ![w] =
                     [Idle EXCEPT !.op = "register_face_api",
                                  !.user_id = user_id, !.frame = frame]]
              /\ lastCall' = NoCall
              /\ UNCHANGED <<attendances, session, now>>
              /\ UNCHANGED <<users, store, known_faces, replaced>>
         ELSE /\ RespondAtOnce("register_face_api", user_id, frame, FALSE,
                               register_face_api_extracts(store, user_id, frame))
              /\ UNCHANGED <<attendances, session, now>>
              /\ UNCHANGED <<users, store, known_faces, replaced>>

\* A save that inserts the row without a descriptor before it raises.
save_inserts_then_raises(rows, user_id) ==
    << [user_id |-> user_id, face_encoding |-> NullBlob,
        is_active |-> TRUE, last_used |-> 0] >> \o rows

\* The rows after FaceProfile.save has raised: the ValueError on no face or
\* several faces comes before super().save(), and a refused INSERT writes
\* nothing.
save_raised(rows, user_id) == rows

\* face_profile.image.save(...) saves the instance: FaceProfile.save runs
\* face_recognition on the image and inserts the row with its encoding.
RegisterImageSave(w) ==
    /\ pc[w] = "reg_image_save"
    /\ ~Locked(local[w].user_id)
    /\ \E face_locations \in 0 .. MaxBoxes :
         IF /\ face_locations = 1
            /\ local[w].user_id \in users
            /\ ~HasProfile(store, local[w].user_id)
         THEN /\ store' = << [user_id |-> local[w].user_id,
                              face_encoding |-> pickle_dumps(DlibEncoding),
                              is_active |-> TRUE, last_used |-> 0] >> \o store
              /\ pc' = [pc EXCEPT ![w] = "reg_save"]
              /\ lastCall' = NoCall
              /\ UNCHANGED <<attendances, session, now>>
              /\ UNCHANGED <<users, known_faces, local, replaced>>
         ELSE /\ store' = save_raised(store, local[w].user_id)
              /\ Respond(w, FALSE)
              /\ UNCHANGED <<attendances, session, now>>
              /\ UNCHANGED <<users, known_faces, replaced>>

\* The row face_profile.save() writes: the existing one with the new
\* descriptor, or a new one when the row is gone (update, else insert).
SavedRow(rows, user_id, bytes) ==
    IF HasProfile(rows, user_id)
    THEN [ProfileOf(rows, user_id) EXCEPT !.face_encoding = bytes]
    ELSE [user_id |-> user_id, face_encoding |-> bytes,
          is_active |-> TRUE, last_used |-> 0]

\* face_profile.face_encoding = pickle.dumps(embedding); face_profile.save()
RegisterSave(w) ==
    /\ pc[w] = "reg_save"
    /\ ~Locked(local[w].user_id)
    /\ IF /\ local[w].user_id \in users
          /\ local[w].row_gone => ~HasProfile(store, local[w].user_id)
       THEN LET embedding ==
                    get_face_embedding(local[w].frame,
                                       process_frame(local[w].frame).face_location)
                row == SavedRow(store, local[w].user_id, pickle_dumps(embedding))
            IN  /\ store' = <<row>> \o WithoutUsers(store, { local[w].user_id })
                /\ pc' = [pc EXCEPT ![w] = "load_reset"]
                /\ local' = [local EXCEPT ![w].row_gone = FALSE]
                /\ lastCall' = NoCall
                /\ UNCHANGED <<attendances, session, now>>
                /\ UNCHANGED <<users, known_faces, replaced>>
       ELSE /\ Respond(w, FALSE)
            /\ UNCHANGED <<attendances, session, now>>
            /\ UNCHANGED <<users, store, known_faces, replaced>>

\* load_known_faces is over: register_face_api responds, clear_company_data
\* goes on to leave its transaction.
AfterLoad(w) ==
    /\ replaced' = << >>
    /\ IF local[w].op = "clear_company_data"
       THEN /\ pc' = [pc EXCEPT ![w] = "clear_commit"]
            /\ local' = [local EXCEPT ![w].rows = << >>]
            /\ lastCall' = NoCall
       ELSE Respond(w, TRUE)

\* load_known_faces: self.known_faces = {}
LoadReset(w) ==
    /\ pc[w] = "load_reset"
    /\ known_faces' = << >>
    /\ replaced' = known_faces
    /\ pc' = [pc EXCEPT ![w] = "load_query"]
    /\ lastCall' = NoCall
    /\ UNCHANGED <<attendances, session, now>>
    /\ UNCHANGED <<users, store, local>>

\* load_known_faces: FaceProfile.objects.all() is evaluated
LoadQuery(w) ==
    /\ pc[w] = "load_query"
    /\ IF RowsSeenBy(w) = << >>
       THEN AfterLoad(w)
       ELSE /\ pc' = [pc EXCEPT ![w] = "load_rows"]
            /\ local' = [local EXCEPT ![w].rows = RowsSeenBy(w)]
            /\ lastCall' = NoCall
            /\ replaced' = replaced
    /\ UNCHANGED <<attendances, session, now>>
    /\ UNCHANGED <<users, store, known_faces>>

\* load_known_faces: one iteration of the loop; an exception empties the index
LoadRowStep(w) ==
    /\ pc[w] = "load_rows"
    /\ LET step == LoadRow(known_faces, Head(local[w].rows))
       IN  IF step.raised
           THEN /\ known_faces' = ResetOnError(step.known_faces)
                /\ AfterLoad(w)
           ELSE /\ known_faces' = step.known_faces
                /\ IF Tail(local[w].rows) = << >>
                   THEN AfterLoad(w)
                   ELSE /\ pc' = pc
                        /\ local' = [local EXCEPT ![w].rows = Tail(local[w].rows)]
                        /\ lastCall' = NoCall
                        /\ replaced' = replaced
    /\ UNCHANGED <<attendances, session, now>>
    /\ UNCHANGED <<users, store>>

\* delete_user: the user row goes, and its FaceProfile with it (CASCADE);
\* the index is not touched.
DeleteUser(w) ==
    /\ pc[w] = "idle"
    /\ \E by \in users : \E target \in Users :
         IF is_admin(by) /\ target \in users /\ target # by
         THEN /\ ~Locked(target)
              /\ users' = users \ { target }
              /\ store' = WithoutUsers(store, { target })
              /\ attendances' = SelectSeq(attendances,
                                           LAMBDA a : a.user_id # target)
              /\ RespondAtOnce("delete_user", target, EmptyFrame, TRUE, FALSE)
              /\ UNCHANGED <<known_faces, replaced, session, now>>
         ELSE /\ RespondAtOnce("delete_user", target, EmptyFrame, FALSE, FALSE)
              /\ UNCHANGED <<attendances, session, now>>
              /\ UNCHANGED <<users, store, known_faces, replaced>>

\* clear_company_data: in a transaction, every Attendance and every
\* FaceProfile of the organization is deleted; load_known_faces follows
\* inside the transaction.
ClearBegin(w) ==
    /\ pc[w] = "idle"
    /\ \E by \in users : \E confirmation \in BOOLEAN :
         IF is_admin(by) /\ confirmation
         THEN /\ \A user_id \in Users : ~Locked(user_id)
              /\ pc' = [pc EXCEPT ![w] = "load_reset"]
              /\ local' = [local EXCEPT ![w] =
                     [Idle EXCEPT !.op = "clear_company_data", !.user_id = by,
                                  !.deleted = { store[i].user_id :
                                                  i \in 1 .. Len(store) },
                                  !.cleared = { attendances[i].user_id :
                                                  i \in 1 .. Len(attendances) }]]
              /\ lastCall' = NoCall
              /\ UNCHANGED <<attendances, session, now>>
              /\ UNCHANGED <<users, store, known_faces, replaced>>
         ELSE /\ RespondAtOnce("clear_company_data", by, EmptyFrame, FALSE, FALSE)
              /\ UNCHANGED <<attendances, session, now>>
              /\ UNCHANGED <<users, store, known_faces, replaced>>

\* clear_company_data: the transaction commits; a registration that had
\* inserted one of the deleted rows is left with an instance whose row is gone
ClearCommit(w) ==
    /\ pc[w] = "clear_commit"
    /\ store' = WithoutUsers(store, local[w].deleted)
    /\ pc' = [pc EXCEPT ![w] = "idle"]
    /\ local' = [v \in Workers |->
                    IF v = w THEN Idle
                    ELSE IF pc[v] = "reg_save" /\ local[v].user_id \in local[w].deleted
                    THEN [local[v] EXCEPT !.row_gone = TRUE]
                    ELSE local[v]]
    /\ lastCall' = [NoCall EXCEPT !.op = local[w].op,
                                  !.user_id = local[w].user_id, !.ok = TRUE]
    /\ attendances' = SelectSeq(attendances,
                                 LAMBDA a : a.user_id \notin local[w].cleared)
    /\ UNCHANGED <<users, known_faces, replaced, session, now>>

\* A step of the request worker w is handling; enrollments submit `frames`.
Handle(w, frames) ==
    \/ RegisterBegin(w, frames)
    \/ RegisterImageSave(w)
    \/ RegisterSave(w)
    \/ LoadReset(w)
    \/ LoadQuery(w)
    \/ LoadRowStep(w)
    \/ DeleteUser(w)
    \/ ClearBegin(w)
    \/ ClearCommit(w)

\* Reads of the index by requests that run beside the handlers.
IdentifyProbe == IdentifyOn(ValidFrames)

VerifyProbe == VerifyOn(ValidFrames)

\* ------------------------------------------------------ login and attendance

NoTime == 0

ErrInvalidImage == "Invalid image format"
ErrDetection == "Face detection failed"
ErrMultipleFaces == "Multiple faces detected"
ErrNotRecognized == "Face not recognized"
ErrUserNotFound == "User not found"
ErrVerification == "Face verification failed"
ErrCompleted == "You have already completed your attendance for today"
ErrMarkedIn == "You have already marked in today"
ErrMarkedOut == "You have already marked out for today"
ErrNoRecord == "No attendance record found for today"
ErrOccurred == "An error occurred"

\* Attendance.objects.filter(user=user, date=today) is not empty
HasAttendance(rows, user_id) ==
    \E i \in 1 .. Len(rows) : rows[i].user_id = user_id

\* Attendance.objects.filter(user=user, date=today).first()
FirstAttendance(rows, user_id) ==
    rows[CHOOSE i \in 1 .. Len(rows) :
            /\ rows[i].user_id = user_id
            /\ \A j \in 1 .. i - 1 : rows[j].user_id # user_id]

\* A table that takes any number of rows of a user and a date.
NoConstraint(rows, user_id) == FALSE

\* unique_together = ('user', 'date'): an INSERT of a second row of the user
\* for today raises IntegrityError.
unique_together(rows, user_id) == HasAttendance(rows, user_id)

\* The request of worker w ends with an error response.
RespondError(w, error) ==
    /\ pc' = [pc EXCEPT ![w] = "idle"]
    /\ local' = [local EXCEPT ![w] = Idle]
    /\ lastCall' = [NoCall EXCEPT !.op = local[w].op,
                                  !.user_id = local[w].user_id,
                                  !.frame = local[w].frame, !.error = error]

\* A lookup that takes every identity the index returns for an existing user.
UserAssumed(user_id) == TRUE

\* User.objects.get(id=user_id) finds the row
UserExists(user_id) == user_id \in users

\* The error verify_face_login answers with before anybody is logged in, or
\* "" when the identified user was found.
LoginRefusal(frame, user_id) ==
    IF IsEmptyFrame(frame) THEN ErrInvalidImage
    ELSE IF ~process_frame(frame).is_valid THEN ErrDetection
    ELSE IF GetFaceCount(process_frame(frame)) > 1 THEN ErrMultipleFaces
    ELSE IF user_id = None THEN ErrNotRecognized
    ELSE IF ~UserExists(user_id) THEN ErrUserNotFound
    ELSE ""

\* verify_face_login, up to the lookup of the identified user
LoginBegin(w, frames) ==
    /\ pc[w] = "idle"
    /\ \E frame \in frames : \E raced \in RaceOutcomes :
         LET user_id ==
                 IF raced \/ IsEmptyFrame(frame) \/ ~process_frame(frame).is_valid
                 THEN None
                 ELSE identify_user(known_faces, frame,
                                    process_frame(frame).face_location)
             error == LoginRefusal(frame, user_id)
         IN  IF error = ""
             THEN /\ pc' = [pc EXCEPT ![w] = "login_login"]
                  /\ local' = [local EXCEPT ![w] =
                         [Idle EXCEPT !.op = "verify_face_login",
                                      !.user_id = user_id]]
                  /\ lastCall' = NoCall
             ELSE /\ lastCall' = [NoCall EXCEPT !.op = "verify_face_login",
                                                !.frame = frame,
                                                !.identity = user_id,
                                                !.error = error]
                  /\ UNCHANGED <<pc, local>>
    /\ UNCHANGED <<attendances, session, now>>
    /\ UNCHANGED <<users, store, known_faces, replaced>>

\* verify_face_login: last_used is written, login(request, user) opens the
\* session and writes the user row, which raises when the row is gone
LoginLogin(w) ==
    /\ pc[w] = "login_login"
    /\ ~Locked(local[w].user_id)
    /\ IF local[w].user_id \in users
       THEN /\ store' = TouchLastUsed(store, local[w].user_id)
            /\ session' = session \cup { local[w].user_id }
            /\ pc' = [pc EXCEPT ![w] = "att_existing"]
            /\ local' = [local EXCEPT ![w].now = now]
            /\ lastCall' = NoCall
       ELSE /\ RespondError(w, ErrOccurred)
            /\ UNCHANGED <<store, session>>
    /\ UNCHANGED <<users, known_faces, replaced, attendances, now>>

\* verify_face_login: existing = Attendance.objects.filter(...).first()
LoginExisting(w) ==
    /\ pc[w] = "att_existing"
    /\ IF HasAttendance(attendances, local[w].user_id)
       THEN Respond(w, TRUE)
       ELSE /\ pc' = [pc EXCEPT ![w] = "att_create"]
            /\ lastCall' = NoCall
            /\ UNCHANGED local
    /\ UNCHANGED <<attendances, session, now>>
    /\ UNCHANGED <<users, store, known_faces, replaced>>

\* The error verify_face_attendance answers with before it reads the
\* attendance record, or "" when the face of the user is verified.
AttendanceRefusal(rows, user_id, frame) ==
    IF IsEmptyFrame(frame) THEN ErrInvalidImage
    ELSE IF ~process_frame(frame).is_valid THEN ErrDetection
    ELSE IF GetFaceCount(process_frame(frame)) > 1 THEN ErrMultipleFaces
    ELSE IF ~views_verify_user_face(rows, user_id, frame) THEN ErrVerification
    ELSE ""

Actions == { "mark_in", "mark_out" }

\* verify_face_attendance, up to the verification of the face
VerifyAttendanceBegin(w, frames) ==
    /\ pc[w] = "idle"
    /\ \E user_id \in users : \E frame \in frames : \E action \in Actions :
         LET error == AttendanceRefusal(store, user_id, frame)
         IN  /\ ~Locked(user_id)
             /\ IF error = ""
                THEN /\ store' = TouchLastUsed(store, user_id)
                     /\ pc' = [pc EXCEPT ![w] = "att_read"]
                     /\ local' = [local EXCEPT ![w] =
                            [Idle EXCEPT !.op = "verify_face_attendance",
                                         !.user_id = user_id,
                                         !.action = action, !.now = now]]
                     /\ lastCall' = NoCall
                ELSE /\ lastCall' =
                            [NoCall EXCEPT !.op = "verify_face_attendance",
                                           !.user_id = user_id, !.frame = frame,
                                           !.error = error]
                     /\ UNCHANGED <<store, pc, local>>
    /\ UNCHANGED <<attendances, session, now>>
    /\ UNCHANGED <<users, known_faces, replaced>>

\* process_attendance, up to its reading of the clock
ProcessAttendanceBegin(w) ==
    /\ pc[w] = "idle"
    /\ \E user_id \in users : \E action \in Actions :
         /\ pc' = [pc EXCEPT ![w] = "att_read"]
         /\ local' = [local EXCEPT ![w] =
                [Idle EXCEPT !.op = "process_attendance", !.user_id = user_id,
                             !.action = action, !.now = now]]
         /\ lastCall' = NoCall
    /\ UNCHANGED <<attendances, session, now>>
    /\ UNCHANGED <<users, store, known_faces, replaced>>

\* The attendance handlers read today's record of the user and answer at
\* once when the action does not apply to it.
AttendanceRead(w) ==
    /\ pc[w] = "att_read"
    /\ LET user_id == local[w].user_id
           found == HasAttendance(attendances, user_id)
       IN  IF local[w].action = "mark_in"
           THEN IF found
                THEN RespondError(w,
                         IF FirstAttendance(attendances, user_id).time_out # NoTime
                         THEN ErrCompleted ELSE ErrMarkedIn)
                ELSE /\ pc' = [pc EXCEPT ![w] = "att_create"]
                     /\ lastCall' = NoCall
                     /\ UNCHANGED local
           ELSE IF ~found THEN RespondError(w, ErrNoRecord)
                ELSE IF FirstAttendance(attendances, user_id).time_out # NoTime
                THEN RespondError(w, ErrMarkedOut)
                ELSE /\ pc' = [pc EXCEPT ![w] = "att_save"]
                     /\ lastCall' = NoCall
                     /\ UNCHANGED local
    /\ UNCHANGED <<attendances, session, now>>
    /\ UNCHANGED <<users, store, known_faces, replaced>>

\* Attendance.objects.create(user, date=today, time_in=now.time(), ...): the
\* INSERT raises when the user row is gone or the user has a row for today
AttendanceCreate(w) ==
    /\ pc[w] = "att_create"
    /\ IF \/ local[w].user_id \notin users
          \/ unique_together(attendances, local[w].user_id)
       THEN /\ RespondError(w, ErrOccurred)
            /\ UNCHANGED attendances
       ELSE /\ attendances' =
                   Append(attendances,
                          [user_id |-> local[w].user_id,
                           time_in |-> local[w].now, time_out |-> NoTime])
            /\ Respond(w, TRUE)
    /\ UNCHANGED <<users, store, known_faces, replaced, session, now>>

\* attendance.time_out = now.time(); attendance.save(): the row read is
\* written back with the new time_out; the write raises when the row is gone
AttendanceSave(w) ==
    /\ pc[w] = "att_save"
    /\ IF ~HasAttendance(attendances, local[w].user_id)
       THEN /\ RespondError(w, ErrOccurred)
            /\ UNCHANGED attendances
       ELSE /\ attendances' =
                   [i \in 1 .. Len(attendances) |->
                       IF attendances[i] =
                              FirstAttendance(attendances, local[w].user_id)
                       THEN [attendances[i] EXCEPT !.time_out = local[w].now]
                       ELSE attendances[i]]
            /\ Respond(w, TRUE)
    /\ UNCHANGED <<users, store, known_faces, replaced, session, now>>

\* Time passes.
Tick ==
    /\ now < MaxClock
    /\ now' = now + 1
    /\ lastCall' = NoCall
    /\ UNCHANGED <<users, store, known_faces, pc, local, replaced>>
    /\ UNCHANGED <<attendances, session>>

\* The frames posted to the login and attendance handlers: the face of each
\* enrolled user, and a frame with two faces.
AttendanceFrames ==
    { Frame(<<Det(BigBox)>>, <<5, 0>>), Frame(<<Det(BigBox)>>, <<3, 4>>) }

\* A step of a login or attendance request of worker w.
HandleAttendance(w) ==
    \/ LoginBegin(w, AttendanceFrames)
    \/ LoginLogin(w)
    \/ LoginExisting(w)
    \/ VerifyAttendanceBegin(w, AttendanceFrames)
    \/ ProcessAttendanceBegin(w)
    \/ AttendanceRead(w)
    \/ AttendanceCreate(w)
    \/ AttendanceSave(w)
    \/ DeleteUser(w)

\* Both users are enrolled and the index is loaded.
InitAttendance ==
    /\ users = Users
    /\ store = [u \in Users |->
                   [user_id |-> u,
                    face_encoding |->
                        pickle_dumps(IF u = 1 THEN <<5, 0>> ELSE <<3, 4>>),
                    is_active |-> TRUE, last_used |-> 0]]
    /\ known_faces = load_known_faces(store)
    /\ pc = [w \in Workers |-> "idle"]
    /\ local = [w \in Workers |-> Idle]
    /\ replaced = << >>
    /\ lastCall = NoCall
    /\ NoAttendance

\* The working day: workers serve face logins, attendance marking and the
\* administrator's deletions while time passes.
NextAttendance ==
    \/ \E w \in Workers : HandleAttendance(w)
    \/ Tick

SpecAttendance == InitAttendance /\ [][NextAttendance]_vars

\* The server: every worker handles requests on a fresh deployment, and a
\* face login reads the index at any time.
Next ==
    \/ \E w \in Workers : Handle(w, ServerFrames)
    \/ IdentifyOn({ Frame(<<Det(BigBox)>>, <<5, 0>>) })

Spec == Init /\ [][Next]_vars

\* One worker on any database the process can be started on: the handlers
\* run one after the other, and readers of the index run beside them.
NextOneWorker ==
    \/ Handle(1, EnrollFrames)
    \/ IdentifyProbe
    \/ VerifyProbe

SpecOneWorker == InitLoaded /\ [][NextOneWorker]_vars

\* The validator alone, on every frame.
NextValidator ==
    \/ ProcessFrameCall
    \/ DetectFacesCall

SpecValidator == Init /\ [][NextValidator]_vars

\* The matcher alone: one call on every index a loaded process can hold.
NextMatcher ==
    \/ lastCall.op = "none" /\ IdentifyCall
    \/ lastCall.op = "none" /\ VerifyCall
    \/ lastCall.op = "none" /\ ViewsVerifyCall

SpecMatcher == InitLoaded /\ [][NextMatcher]_vars

\* The core on its own: one call of any of its functions, in a process started
\* on a database in which a registration may be under way (its row then
\* holds the encoding FaceProfile.save computed), on frames that are valid,
\* empty, without colour channels, or on which the network fails.
CoreBlobs == StoredBlobs \cup { pickle_dumps(DlibEncoding) }

CoreRows ==
    [user_id : Users, face_encoding : CoreBlobs, is_active : { TRUE },
     last_used : {0}]

CoreStores ==
    { rows \in UNION { [1 .. n -> CoreRows] : n \in 0 .. MaxUser } :
        \A i, j \in 1 .. Len(rows) : i # j => rows[i].user_id # rows[j].user_id }

GrayFrames ==
    { [shape |-> GrayShape, dets |-> <<Det(BigBox)>>, face |-> e] :
        e \in { <<5, 0>> } }

CoreFrames ==
    ValidFrames \cup GrayFrames \cup
    { EmptyFrame, Frame(<<Det(BigBox)>>, NoEmbedding) }

InitCore ==
    /\ users = Users
    /\ store \in CoreStores
    /\ known_faces = load_known_faces(store)
    /\ pc = [w \in Workers |-> "idle"]
    /\ local = [w \in Workers |-> Idle]
    /\ replaced = << >>
    /\ lastCall = NoCall
    /\ NoAttendance

NextCore ==
    \/ lastCall.op = "none" /\ DetectFacesOn(CoreFrames)
    \/ lastCall.op = "none" /\ GetFaceEmbeddingOn(CoreFrames)
    \/ lastCall.op = "none" /\ ProcessFrameOn(CoreFrames)
    \/ lastCall.op = "none" /\ IdentifyOn(CoreFrames)
    \/ lastCall.op = "none" /\ VerifyOn(CoreFrames)
    \/ lastCall.op = "none" /\ ViewsVerifyOn(CoreFrames)

SpecCore == InitCore /\ [][NextCore]_vars

\* ------------------------------------------------------- validator properties

\* The number of boxes of a frame whose confidence is above the floor.
CountAboveFloor(frame) ==
    Cardinality({ i \in 1 .. Len(frame.dets) : frame.dets[i].prob > ConfidenceFloor })

\* C10: a non-empty frame in which the detector finds no box above the
\* confidence floor is rejected with the "no faces detected" reason, and one
\* with two or more such boxes with the "multiple faces detected" reason,
\* whatever the sizes of the boxes.
C10_RejectsZeroAndMultiple ==
    (lastCall.op = "process_frame" /\ ~IsEmptyFrame(lastCall.frame)) =>
        /\ CountAboveFloor(lastCall.frame) = 0 =>
               lastCall.verdict = Rejected(ErrNoFaces)
        /\ CountAboveFloor(lastCall.frame) >= 2 =>
               lastCall.verdict = Rejected(ErrMultiple)

\* A frame with a large and a small face, both above the floor, was rejected
\* as showing multiple faces.
C10_Witness ==
    /\ lastCall.op = "process_frame"
    /\ Len(lastCall.frame.dets) = 2
    /\ CountAboveFloor(lastCall.frame) = 2
    /\ lastCall.frame.dets[1].box = BigBox
    /\ lastCall.frame.dets[2].box = SmallBox
    /\ lastCall.verdict = Rejected(ErrMultiple)

\* --------------------------------------------------------- matcher properties

\* The embedding a recorded matcher call compared: the extractor's output for
\* the location it was given, or for the validator's when it was given none.
QueryEmbedding(call) ==
    LET location == LocationFor(call.frame, call.face_location)
    IN  IF location = NoLocation THEN NoEmbedding
        ELSE get_face_embedding(call.frame, location)

\* Scaled similarity of an embedding to the index entry at position i.
SimilarityAt(embedding, i) == np_dot(embedding, known_faces[i].encoding)

AttainsMaximum(embedding, i) ==
    \A j \in 1 .. Len(known_faces) :
        SimilarityAt(embedding, j) <= SimilarityAt(embedding, i)

IsAtThreshold(d) == d * 10 = ToleranceTenths * UnitSq

IsAboveThreshold(d) == d * 10 > ToleranceTenths * UnitSq

\* C5 as claimed: identify returns u exactly when u's entry attains the
\* maximum similarity and that maximum exceeds the threshold, and null in
\* every other case.
C5_AsClaimed ==
    lastCall.op = "identify_user" =>
        LET embedding == QueryEmbedding(lastCall)
        IN  IF embedding = NoEmbedding THEN lastCall.identity = None
            ELSE /\ \A i \in 1 .. Len(known_faces) :
                        (lastCall.identity = known_faces[i].user_id) <=>
                            /\ AttainsMaximum(embedding, i)
                            /\ IsAboveThreshold(SimilarityAt(embedding, i))
                 /\ lastCall.identity = None <=>
                        \A i \in 1 .. Len(known_faces) :
                            ~IsAboveThreshold(SimilarityAt(embedding, i))

\* C5 (amended): identify returns u exactly when u's entry is the first one
\* in index order to attain the maximum similarity and that maximum exceeds
\* the threshold; it returns null in every other case, so always when the
\* index is empty, and never an identity whose similarity is below the maximum.
C5_FirstMaximumAboveThreshold ==
    lastCall.op = "identify_user" =>
        LET embedding == QueryEmbedding(lastCall)
        IN  IF embedding = NoEmbedding THEN lastCall.identity = None
            ELSE /\ \A i \in 1 .. Len(known_faces) :
                        (lastCall.identity = known_faces[i].user_id) <=>
                            /\ AttainsMaximum(embedding, i)
                            /\ IsAboveThreshold(SimilarityAt(embedding, i))
                            /\ \A j \in 1 .. i - 1 :
                                   SimilarityAt(embedding, j) <
                                       SimilarityAt(embedding, i)
                 /\ lastCall.identity = None <=>
                        \A i \in 1 .. Len(known_faces) :
                            ~IsAboveThreshold(SimilarityAt(embedding, i))

\* Two entries tie for the maximum above the threshold and the first of them
\* was returned.
C5_Witness ==
    /\ lastCall.op = "identify_user"
    /\ Len(known_faces) = 2
    /\ QueryEmbedding(lastCall) # NoEmbedding
    /\ SimilarityAt(QueryEmbedding(lastCall), 1) =
           SimilarityAt(QueryEmbedding(lastCall), 2)
    /\ IsAboveThreshold(SimilarityAt(QueryEmbedding(lastCall), 1))
    /\ lastCall.identity = known_faces[1].user_id

\* C6: the comparison with the threshold is strict: identify returns null when
\* the best similarity equals the threshold, and both verifications return
\* false when the claimed identity's similarity equals the threshold.
C6_StrictThreshold ==
    LET embedding == QueryEmbedding(lastCall)
    IN  /\ ( /\ lastCall.op = "identify_user"
             /\ embedding # NoEmbedding
             /\ \E i \in 1 .. Len(known_faces) :
                    /\ AttainsMaximum(embedding, i)
                    /\ IsAtThreshold(SimilarityAt(embedding, i)) )
           => lastCall.identity = None
        /\ ( /\ lastCall.op = "verify_user_face"
             /\ embedding # NoEmbedding
             /\ lastCall.user_id \in IndexKeys(known_faces)
             /\ IsAtThreshold(np_dot(embedding,
                                     IndexEncoding(known_faces, lastCall.user_id))) )
           => ~lastCall.ok
        /\ ( /\ lastCall.op = "views_verify_user_face"
             /\ embedding # NoEmbedding
             /\ HasProfile(store, lastCall.user_id)
             /\ ProfileOf(store, lastCall.user_id).face_encoding.blob = "pickle"
             /\ IsAtThreshold(
                    np_dot(embedding,
                           ProfileOf(store, lastCall.user_id).face_encoding.vec)) )
           => ~lastCall.ok

\* identify ran on an embedding whose best similarity is exactly the
\* threshold, and returned null.
C6_Witness ==
    /\ lastCall.op = "identify_user"
    /\ QueryEmbedding(lastCall) # NoEmbedding
    /\ \E i \in 1 .. Len(known_faces) :
           /\ AttainsMaximum(QueryEmbedding(lastCall), i)
           /\ IsAtThreshold(SimilarityAt(QueryEmbedding(lastCall), i))
    /\ lastCall.identity = None

\* C7: verification of an identity that has no entry in the index
\* (FaceRecognizer.verify_user_face) or no stored embedding
\* (views.verify_user_face) returns false on every frame.
C7_AbsentIdentityIsFalse ==
    /\ ( /\ lastCall.op = "verify_user_face"
         /\ lastCall.user_id \notin IndexKeys(known_faces) )
       => ~lastCall.ok
    /\ ( /\ lastCall.op = "views_verify_user_face"
         /\ \/ ~HasProfile(store, lastCall.user_id)
            \/ ProfileOf(store, lastCall.user_id).face_encoding.blob = "null" )
       => ~lastCall.ok

\* An identity absent from the index was verified on a frame that matches
\* another enrolled identity, and the answer was false.
C7_Witness ==
    /\ lastCall.op = "verify_user_face"
    /\ lastCall.user_id \notin IndexKeys(known_faces)
    /\ identify_user(known_faces, lastCall.frame, lastCall.face_location) # None
    /\ ~lastCall.ok

\* The items of an index, or the rows of a store, that belong to one user.
OnlyUser(items, user_id) ==
    LET F[i \in 0 .. Len(items)] ==
            IF i = 0 THEN << >>
            ELSE IF items[i].user_id = user_id THEN Append(F[i - 1], items[i])
            ELSE F[i - 1]
    IN  F[Len(items)]

\* C8: the result of a verification depends on the claimed identity's entry
\* alone: it equals the result on the index (the store) cut down to that
\* entry, so any two indexes that agree on the claimed identity give the same
\* result whatever the other identities' entries are.
C8_VerifyReadsClaimedIdentityOnly ==
    /\ lastCall.op = "verify_user_face" =>
           lastCall.ok =
               verify_user_face(OnlyUser(known_faces, lastCall.user_id),
                                lastCall.user_id, lastCall.frame,
                                lastCall.face_location)
    /\ lastCall.op = "views_verify_user_face" =>
           lastCall.ok =
               views_verify_user_face(OnlyUser(store, lastCall.user_id),
                                      lastCall.user_id, lastCall.frame)

\* The claimed identity is enrolled, the frame matches another enrolled
\* identity above the threshold, and the verification answered false.
C8_Witness ==
    /\ lastCall.op = "verify_user_face"
    /\ lastCall.user_id \in IndexKeys(known_faces)
    /\ identify_user(known_faces, lastCall.frame, lastCall.face_location)
           \notin { None, lastCall.user_id }
    /\ ~lastCall.ok

\* ------------------------------------------------- enrollment index properties

\* The users whose FaceProfile row holds a readable descriptor.
Enrolled(rows) ==
    { u \in Users : HasProfile(rows, u)
                    /\ ProfileOf(rows, u).face_encoding.blob = "pickle" }

AllIdle == \A w \in Workers : pc[w] = "idle"

\* No row holds bytes that pickle.loads fails on.
AllReadable(rows) ==
    \A i \in 1 .. Len(rows) : rows[i].face_encoding.blob # "corrupt"

\* A register_face_api request has just answered with success: its
\* load_known_faces was its last step.
RegisteredNow == lastCall.op = "register_face_api" /\ lastCall.ok /\ AllIdle

\* C1: a reader that runs while load_known_faces is in progress finds in
\* known_faces either the complete index the rebuild replaced or the complete
\* index it builds from the rows it reads, never an empty or half-filled one.
C1_AsClaimed ==
    \A w \in Workers :
        ( /\ lastCall.op \in { "identify_user", "verify_user_face" }
          /\ pc[w] \in { "load_query", "load_rows" } )
        => known_faces \in { replaced, load_known_faces(RowsSeenBy(w)) }

\* C2: when register_face_api, delete_user or clear_company_data has completed
\* and nothing else runs, the identities in the index are exactly the users
\* with a persisted embedding, and a user removed by delete_user can no longer
\* be returned by identify_user.
C2_AsClaimed ==
    ( /\ lastCall.op \in { "register_face_api", "delete_user",
                           "clear_company_data" }
      /\ lastCall.ok
      /\ AllIdle )
    => /\ IndexKeys(known_faces) = Enrolled(store)
       /\ lastCall.op = "delete_user" =>
              \A frame \in ValidFrames :
                  identify_user(known_faces, frame, NoLocation) # lastCall.user_id

\* C3: after a rebuild the index holds every record whose descriptor is
\* readable, also when other records are corrupt.
C3_AsClaimed ==
    RegisteredNow =>
        \A i \in 1 .. Len(store) :
            store[i].face_encoding.blob = "pickle" =>
                store[i].user_id \in IndexKeys(known_faces)

\* C4: after a rebuild (of a store whose descriptors are all readable) a user
\* has an index entry exactly when its FaceProfile is active and holds an
\* embedding; inactive records are not in the index.
C4_AsClaimed ==
    (RegisteredNow /\ AllReadable(store)) =>
        \A u \in Users :
            u \in IndexKeys(known_faces) <=>
                /\ HasProfile(store, u)
                /\ ProfileOf(store, u).is_active
                /\ Truthy(ProfileOf(store, u).face_encoding)

\* C9: once a user has enrolled with a frame and the index is rebuilt,
\* identify_user on that frame returns that user, whatever the records of the
\* other users are.
C9_AsClaimed ==
    RegisteredNow =>
        identify_user(known_faces, lastCall.frame, NoLocation) = lastCall.user_id

\* The round trip of C9 on stores whose descriptors are all readable.
C9_ReadableStoreRoundTrip ==
    (RegisteredNow /\ AllReadable(store)) =>
        identify_user(known_faces, lastCall.frame, NoLocation) = lastCall.user_id

\* ------------------------------------------------ validator properties (size)

\* The box of the only detection of a frame above the confidence floor.
TheFace(frame) ==
    frame.dets[CHOOSE i \in 1 .. Len(frame.dets) :
                   frame.dets[i].prob > ConfidenceFloor].box

\* The box is lower than a fifth of the frame's height.
TooLow(frame, box) == (box[4] - box[2]) * MinFaceFraction < frame.shape[1]

\* The box is narrower than a fifth of the frame's width.
TooNarrow(frame, box) == (box[3] - box[1]) * MinFaceFraction < frame.shape[2]

\* C11: for a single detected face the height is checked before the width:
\* a box under 20% of the frame height is rejected with "move closer"
\* whatever its width, and "center your face" is the verdict exactly when
\* the height passes and the width is under 20% of the frame width.
C11_HeightBeforeWidth ==
    ( /\ lastCall.op = "process_frame"
      /\ ~IsEmptyFrame(lastCall.frame)
      /\ CountAboveFloor(lastCall.frame) = 1 )
    => LET box == TheFace(lastCall.frame)
       IN  /\ TooLow(lastCall.frame, box) =>
                  lastCall.verdict = Rejected(ErrCloser)
           /\ lastCall.verdict = Rejected(ErrCenter) <=>
                  (~TooLow(lastCall.frame, box) /\ TooNarrow(lastCall.frame, box))

\* A single face that is both too low and too narrow was told to move closer.
C11_Witness ==
    /\ lastCall.op = "process_frame"
    /\ ~IsEmptyFrame(lastCall.frame)
    /\ CountAboveFloor(lastCall.frame) = 1
    /\ TooLow(lastCall.frame, TheFace(lastCall.frame))
    /\ TooNarrow(lastCall.frame, TheFace(lastCall.frame))
    /\ lastCall.verdict = Rejected(ErrCloser)

\* C12: a verdict with is_valid true carries a face_location and a
\* face_count, and the face_count is 1.
C12_ValidMeansOneFace ==
    (lastCall.op = "process_frame" /\ lastCall.verdict.is_valid) =>
        /\ "face_location" \in DOMAIN lastCall.verdict
        /\ "face_count" \in DOMAIN lastCall.verdict
        /\ lastCall.verdict.face_count = 1
        /\ lastCall.verdict.face_location = TheFace(lastCall.frame)

\* A frame with one large face above the floor (and a second detection at
\* the floor) was accepted.
C12_Witness ==
    /\ lastCall.op = "process_frame"
    /\ lastCall.verdict.is_valid
    /\ Len(lastCall.frame.dets) = 2
    /\ lastCall.verdict.face_count = 1

\* C13: the verdict always carries face_count, also on rejection: a frame
\* with two boxes above the floor gets is_valid false and face_count 2.
C13_AsClaimed ==
    ( /\ lastCall.op = "process_frame"
      /\ ~IsEmptyFrame(lastCall.frame)
      /\ CountAboveFloor(lastCall.frame) = 2 )
    => /\ ~lastCall.verdict.is_valid
       /\ "face_count" \in DOMAIN lastCall.verdict
       /\ GetFaceCount(lastCall.verdict) = 2

\* ------------------------------------------------------ pipeline properties

\* The validator's conditions for accepting a frame, stated on the frame.
IsValidFrame(frame) ==
    /\ ~IsEmptyFrame(frame)
    /\ CountAboveFloor(frame) = 1
    /\ ~TooLow(frame, TheFace(frame))
    /\ ~TooNarrow(frame, TheFace(frame))

\* C14: on a frame the validator rejects, identification returns null and
\* verification false, and no call reaches get_face_embedding: the extractor
\* runs only on a frame with a valid verdict.
C14_NoExtractionOnRejectedFrame ==
    /\ lastCall.extracted => IsValidFrame(lastCall.frame)
    /\ ( /\ lastCall.op \in { "identify_user", "verify_user_face",
                              "views_verify_user_face", "register_face_api" }
         /\ ~IsValidFrame(lastCall.frame) )
       => (lastCall.identity = None /\ ~lastCall.ok)

\* identify_user ran with a non-empty index on a frame whose only face is too
\* small: it answered null and did not call the extractor.
C14_Witness ==
    /\ lastCall.op = "identify_user"
    /\ Len(known_faces) > 0
    /\ lastCall.frame.face # NoEmbedding
    /\ CountAboveFloor(lastCall.frame) = 1
    /\ ~IsValidFrame(lastCall.frame)
    /\ ~lastCall.extracted
    /\ lastCall.identity = None

\* ------------------------------------------------------- detector properties

\* The boxes of a frame's detections whose confidence is above the floor, in
\* the detector's order.
KeptBoxes(frame) ==
    LET F[i \in 0 .. Len(frame.dets)] ==
            IF i = 0 THEN << >>
            ELSE IF frame.dets[i].prob > ConfidenceFloor
                 THEN Append(F[i - 1], frame.dets[i].box)
                 ELSE F[i - 1]
    IN  F[Len(frame.dets)]

\* C15: detect_faces returns exactly the boxes whose confidence exceeds the
\* floor; a box at the floor is dropped and does not count as a face, so a
\* frame with one box above the floor and one at it is validated as a frame
\* with that one face.
C15_OnlyBoxesAboveFloor ==
    /\ (lastCall.op = "detect_faces" /\ ~IsEmptyFrame(lastCall.frame)) =>
           lastCall.boxes = KeptBoxes(lastCall.frame)
    /\ ( /\ lastCall.op = "process_frame"
         /\ ~IsEmptyFrame(lastCall.frame)
         /\ CountAboveFloor(lastCall.frame) = 1 )
       => /\ lastCall.verdict \notin { Rejected(ErrMultiple), Rejected(ErrNoFaces) }
          /\ lastCall.verdict.is_valid <=> IsValidFrame(lastCall.frame)

\* The detector was given one box above the floor and one at the floor and
\* returned the first alone.
C15_Witness ==
    /\ lastCall.op = "detect_faces"
    /\ Len(lastCall.frame.dets) = 2
    /\ lastCall.frame.dets[1].prob > ConfidenceFloor
    /\ lastCall.frame.dets[2].prob = ConfidenceFloor
    /\ lastCall.boxes = <<lastCall.frame.dets[1].box>>

\* --------------------------------------------------- error-handling properties

\* The frame is one on which the detector or the extractor fails.
FrameFails(frame) ==
    IsEmptyFrame(frame) \/ cvtColor_raises(frame) \/ frame.face = NoEmbedding

\* The frame's embedding cannot be multiplied with the stored encoding.
Mismatch(frame, encoding) == Len(frame.face) # Len(encoding)

\* C16: no failure inside the core reaches the caller: on an empty frame, a
\* frame the detector or the network fails on, or an index entry the matcher
\* cannot multiply with, detect_faces returns the empty list,
\* get_face_embedding null, process_frame a verdict with is_valid false,
\* identify_user null and both verifications false.
C16_FailuresBecomeNegativeResults ==
    /\ ( /\ lastCall.op = "detect_faces"
         /\ IsEmptyFrame(lastCall.frame) \/ cvtColor_raises(lastCall.frame) )
       => lastCall.boxes = << >>
    /\ (lastCall.op = "get_face_embedding" /\ FrameFails(lastCall.frame))
       => lastCall.embedding = NoEmbedding
    /\ ( /\ lastCall.op = "process_frame"
         /\ IsEmptyFrame(lastCall.frame) \/ cvtColor_raises(lastCall.frame) )
       => /\ DOMAIN lastCall.verdict = { "is_valid", "error" }
          /\ ~lastCall.verdict.is_valid
    /\ ( /\ lastCall.op = "identify_user"
         /\ \/ FrameFails(lastCall.frame)
            \/ \E i \in 1 .. Len(known_faces) :
                   Mismatch(lastCall.frame, known_faces[i].encoding) )
       => lastCall.identity = None
    /\ lastCall.op = "identify_user" => lastCall.identity \in Users \cup { None }
    /\ ( /\ lastCall.op = "verify_user_face"
         /\ \/ FrameFails(lastCall.frame)
            \/ /\ lastCall.user_id \in IndexKeys(known_faces)
               /\ Mismatch(lastCall.frame,
                           IndexEncoding(known_faces, lastCall.user_id)) )
       => ~lastCall.ok
    /\ ( /\ lastCall.op = "views_verify_user_face"
         /\ \/ FrameFails(lastCall.frame)
            \/ /\ HasProfile(store, lastCall.user_id)
               /\ \/ ProfileOf(store, lastCall.user_id).face_encoding.blob = "corrupt"
                  \/ Mismatch(lastCall.frame,
                              ProfileOf(store, lastCall.user_id).face_encoding.vec) )
       => ~lastCall.ok

\* identify_user met an index entry of another dimension after an entry that
\* matches the frame, and answered null.
C16_Witness ==
    /\ lastCall.op = "identify_user"
    /\ Len(known_faces) = 2
    /\ lastCall.frame.face = known_faces[1].encoding
    /\ Mismatch(lastCall.frame, known_faces[2].encoding)
    /\ IsValidFrame(lastCall.frame)
    /\ lastCall.identity = None

\* --------------------------------------------------------- enrollment properties

RowsOf(rows, user_id) == { i \in 1 .. Len(rows) : rows[i].user_id = user_id }

\* C17: whatever enrollment requests run and however they interleave, a user
\* has at most one FaceProfile row and at most one entry in the index.
C17_OneEmbeddingPerUser ==
    \A u \in Users :
        /\ Cardinality(RowsOf(store, u)) <= 1
        /\ Cardinality(RowsOf(known_faces, u)) <= 1

\* Two requests enroll the same user at once: the first has inserted the row,
\* the second is about to save its own.
C17_Witness ==
    /\ pc[1] = "reg_save"
    /\ pc[2] = "reg_image_save"
    /\ local[1].user_id = local[2].user_id
    /\ Cardinality(RowsOf(store, local[1].user_id)) = 1

\* C18 as claimed: a user who already has a stored embedding and submits a
\* new valid single-face image (on which the extractor succeeds) ends up
\* with the new embedding stored in place of the old one.
C18_AsClaimed ==
    ( /\ lastCall.op = "register_face_api"
      /\ AllIdle
      /\ IsValidFrame(lastCall.frame)
      /\ lastCall.frame.face # NoEmbedding
      /\ lastCall.user_id \in Enrolled(store) )
    => ProfileOf(store, lastCall.user_id).face_encoding =
           pickle_dumps(lastCall.frame.face)

\* The descriptor of user u's row after a step is not the one before it.
Written(u) ==
    /\ HasProfile(store', u)
    /\ HasProfile(store, u) =>
           ProfileOf(store', u).face_encoding # ProfileOf(store, u).face_encoding

\* C19: a descriptor is persisted only by a registration whose frame the
\* validator accepted (exactly one face) and the extractor gave an embedding
\* for: every write of a row's descriptor is made by such a request, from
\* that frame, and once no request is running every stored descriptor is an
\* embedding of the extractor.
C19_RowsComeFromValidatedFrames ==
    [][ /\ \A u \in Users :
               Written(u) =>
                   \E w \in Workers :
                       /\ local[w].op = "register_face_api"
                       /\ local[w].user_id = u
                       /\ IsValidFrame(local[w].frame)
                       /\ local[w].frame.face # NoEmbedding
                       /\ ProfileOf(store', u).face_encoding \in
                              { pickle_dumps(DlibEncoding),
                                pickle_dumps(local[w].frame.face) }
        /\ (\A w \in Workers : pc'[w] = "idle") =>
               \A i \in 1 .. Len(store') :
                   store'[i].face_encoding \in
                       { pickle_dumps(e) : e \in Embeddings }
      ]_vars

\* A registration has completed and its user's row holds the embedding of
\* the frame it submitted.
C19_Witness ==
    /\ RegisteredNow
    /\ HasProfile(store, lastCall.user_id)
    /\ IsValidFrame(lastCall.frame)
    /\ ProfileOf(store, lastCall.user_id).face_encoding =
           pickle_dumps(lastCall.frame.face)

\* ------------------------------------------------------ last-used properties

\* The rows with the last_used of one user's row set and nothing else changed.
WithLastUsedSet(rows, user_id) ==
    [i \in 1 .. Len(rows) |->
        IF rows[i].user_id = user_id
        THEN [user_id |-> rows[i].user_id, face_encoding |-> rows[i].face_encoding,
              is_active |-> rows[i].is_active, last_used |-> 1]
        ELSE rows[i]]

\* C20: views.verify_user_face sets the last_used of the verified user's
\* record exactly when it returns true, and changes no record when it
\* returns false.
C20_LastUsedIffVerified ==
    [][ lastCall'.op = "views_verify_user_face" =>
            IF lastCall'.ok
            THEN /\ store' = WithLastUsedSet(store, lastCall'.user_id)
                 /\ ProfileOf(store', lastCall'.user_id).last_used = 1
            ELSE store' = store
      ]_vars

\* A verification succeeded for a user while another user is enrolled too:
\* the verified user's record is stamped, the other's is not.
C20_Witness ==
    /\ lastCall.op = "views_verify_user_face"
    /\ lastCall.ok
    /\ Len(store) = 2
    /\ ProfileOf(store, lastCall.user_id).last_used = 1
    /\ \E i \in 1 .. Len(store) :
           store[i].user_id # lastCall.user_id /\ store[i].last_used = 0

\* ------------------------------------------- identification and verification

NoRebuild == \A w \in Workers : ~Rebuilding(w)

\* identify_user and verify_user_face agree on the frame of the recorded
\* identification: the identity returned verifies, and if any identity
\* verifies then an identity is returned.
Agree(call) ==
    /\ call.identity # None =>
           verify_user_face(known_faces, call.identity, call.frame,
                            call.face_location)
    /\ (\E u \in Users :
            verify_user_face(known_faces, u, call.frame, call.face_location))
       => call.identity # None

\* C21: identification and verification use the same similarity and the same
\* threshold: on the same frame and index, if identify returns U then verify
\* of U returns true, and if verify of some U returns true then identify
\* returns an identity.
C21_AsClaimed ==
    (lastCall.op = "identify_user" /\ NoRebuild) => Agree(lastCall)

\* The agreement of C21 on the indexes of a process started on a database
\* whose descriptors all come from the extractor.
C21_AgreeOnExtractorIndexes ==
    lastCall.op = "identify_user" => Agree(lastCall)

\* ------------------------------------------------------- concurrent rebuilds

\* The entries of an index, without their order.
Entries(index) == { index[i] : i \in 1 .. Len(index) }

\* The entries the persisted embeddings amount to.
Persisted(rows) ==
    { [user_id |-> rows[i].user_id,
       encoding |-> pickle_loads(rows[i].face_encoding)] :
        i \in { j \in 1 .. Len(rows) : rows[j].face_encoding.blob = "pickle" } }

\* A request that ends with a rebuild has just completed, no request is in
\* progress, and no user has been removed by delete_user.
RebuildsCompleted ==
    /\ lastCall.op \in { "register_face_api", "clear_company_data" }
    /\ lastCall.ok
    /\ AllIdle
    /\ users = Users

\* C22: after any set of concurrent rebuilds (register_face_api interleaved
\* with clear_company_data) has completed and the store has not changed
\* since, the index holds exactly the persisted embeddings.
C22_AsClaimed ==
    RebuildsCompleted => Entries(known_faces) = Persisted(store)

\* -------------------------------------------------------------- face login

\* C23: verify_face_login never authenticates an identity that is absent from
\* the user store, also when the index is stale: when identify_user returns
\* an identity whose User row no longer exists the answer is 'User not
\* found', no session is opened and no attendance record is created; a
\* login goes on past the lookup only with an existing user, and every
\* session opened and attendance record created is an existing user's.
C23_NoLoginOfAbsentUser ==
    [][ /\ ( /\ lastCall'.op = "verify_face_login"
             /\ lastCall'.identity # None
             /\ lastCall'.identity \notin users )
           => /\ lastCall'.error = ErrUserNotFound
              /\ ~lastCall'.ok
              /\ session' = session
              /\ attendances' = attendances
        /\ \A w \in Workers :
               (pc[w] = "idle" /\ pc'[w] = "login_login")
               => local'[w].user_id \in users
        /\ session' \ session \subseteq users
        /\ \A i \in 1 .. Len(attendances') :
               attendances'[i] \notin Entries(attendances)
               => attendances'[i].user_id \in users ]_vars

\* A face login has identified, from a stale index, a user that delete_user
\* had removed.
C23_Witness ==
    /\ lastCall.op = "verify_face_login"
    /\ lastCall.identity # None
    /\ lastCall.identity \notin users
    /\ lastCall.identity \in IndexKeys(known_faces)
    /\ lastCall.error = ErrUserNotFound

\* ----------------------------------------------------------------- attendance

MarkingOps == { "verify_face_login", "verify_face_attendance",
                "process_attendance" }

\* No user has two attendance records for today.
OnePerUserAndDate(rows) ==
    \A i, j \in 1 .. Len(rows) : rows[i].user_id = rows[j].user_id => i = j

\* C24: there is at most one attendance record per user and date under any
\* interleaving of verify_face_login and the mark-in handlers, and a mark-in
\* request that finds a record of the user for today creates none and leaves
\* the existing one unchanged.
C24_OneRecordPerUserAndDate ==
    [][ /\ OnePerUserAndDate(attendances')
        /\ ( /\ lastCall'.op \in MarkingOps
             /\ lastCall'.error \in { ErrMarkedIn, ErrCompleted } )
           => attendances' = attendances
        /\ \A w \in Workers :
               ( /\ pc[w] \in { "att_existing", "att_read", "att_create" }
                 /\ local[w].action # "mark_out"
                 /\ pc'[w] # pc[w]
                 /\ HasAttendance(attendances, local[w].user_id) )
               => attendances' = attendances ]_vars

\* Two requests found no record of the user for today; one has created it
\* and the INSERT of the other has just been refused.
C24_Witness ==
    /\ lastCall.op \in MarkingOps
    /\ lastCall.error = ErrOccurred
    /\ lastCall.user_id \in users
    /\ HasAttendance(attendances, lastCall.user_id)
    /\ OnePerUserAndDate(attendances)

\* C25: a mark-out is recorded at most once per day and only on the record a
\* mark-in created: the time_out of a record is never changed once it is
\* set, also not by a concurrent mark-out, and a record that appears has no
\* time_out yet.
C25_AsClaimed ==
    [][ /\ \A i \in 1 .. Len(attendances) : \A j \in 1 .. Len(attendances') :
               ( /\ attendances[i].time_out # NoTime
                 /\ attendances'[j].user_id = attendances[i].user_id )
               => attendances'[j].time_out = attendances[i].time_out
        /\ \A j \in 1 .. Len(attendances') :
               ~HasAttendance(attendances, attendances'[j].user_id)
               => attendances'[j].time_out = NoTime ]_vars

\* ---------------------------------------------------------- failed enrollment

\* Worker w ends a register_face_api request with a failure in this step.
RegistrationFails(w) ==
    /\ lastCall'.op = "register_face_api"
    /\ ~lastCall'.ok
    /\ pc'[w] = "idle"
    /\ \/ pc[w] \in { "reg_image_save", "reg_save" }
       \/ pc[w] = "idle" /\ \A v \in Workers : pc'[v] = pc[v]

\* C26: an enrollment that fails creates or modifies no record and leaves the
\* index unchanged: the step that fails changes neither, and the row the
\* request had inserted, if any, is no longer in the store.
C26_FailedEnrollmentChangesNothing ==
    [][ \A w \in Workers :
            RegistrationFails(w) =>
                /\ store' = store
                /\ known_faces' = known_faces
                /\ pc[w] = "reg_save" =>
                       \/ ~HasProfile(store', local[w].user_id)
                       \/ local[w].row_gone ]_vars

\* A registration has failed after its frame had passed every check of the
\* handler: FaceProfile.save or the INSERT raised.
C26_Witness ==
    /\ lastCall.op = "register_face_api"
    /\ ~lastCall.ok
    /\ lastCall.user_id \in users
    /\ RegistrationAccepted(store, lastCall.user_id, lastCall.frame)

\* ------------------------------------------------ the two verification paths

\* The index holds exactly the embeddings the store persists.
InSync == Entries(known_faces) = Persisted(store)

\* C27: FaceRecognizer.verify_user_face (against the index) and
\* views.verify_user_face (against the stored row) return the same result for
\* the same frame and user whenever the index is in sync with the store.
C27_SameResultWhenInSync ==
    /\ (lastCall.op = "verify_user_face" /\ InSync) =>
           lastCall.ok = views_verify_user_face(store, lastCall.user_id,
                                                lastCall.frame)
    /\ (lastCall.op = "views_verify_user_face" /\ InSync) =>
           lastCall.ok = verify_user_face(known_faces, lastCall.user_id,
                                          lastCall.frame, NoLocation)

\* The store-based verification has accepted a user on an index in sync that
\* holds another user as well.
C27_Witness ==
    /\ lastCall.op = "views_verify_user_face"
    /\ lastCall.ok
    /\ InSync
    /\ Len(known_faces) = MaxUser
    /\ verify_user_face(known_faces, lastCall.user_id, lastCall.frame, NoLocation)

\* -------------------------------------------------------------- failed rebuild

\* C28: load_known_faces fails closed. A row whose descriptor cannot be
\* unpickled makes every rebuild raise; once the rebuild is over the index is
\* empty (the entries loaded before the error are dropped), identify_user
\* returns None and verify_user_face returns False for every user.
C28_RebuildFailsClosed ==
    (~AllReadable(store) /\ NoRebuild) =>
        /\ known_faces = << >>
        /\ lastCall.op = "identify_user" => lastCall.identity = None
        /\ lastCall.op = "verify_user_face" => ~lastCall.ok

\* A registration has saved a readable row in front of a corrupt one, and
\* its rebuild has loaded the first and raised on the second.
C28_Witness ==
    /\ RegisteredNow
    /\ ~AllReadable(store)
    /\ store[1].user_id = lastCall.user_id
    /\ store[1].face_encoding.blob = "pickle"
    /\ known_faces = << >>

\* ------------------------------------------------------------------------ ties

\* The positions of the index entries that share the maximum similarity to
\* the embedding, when that maximum is above the threshold.
Tied(embedding) ==
    { i \in 1 .. Len(known_faces) :
        /\ AttainsMaximum(embedding, i)
        /\ IsAboveThreshold(SimilarityAt(embedding, i)) }

\* C29: identify_user is deterministic on ties: when several index entries
\* attain the same maximum similarity above the threshold, the identity
\* returned is that of the first of them in the iteration order of the index.
C29_FirstOfTiedEntries ==
    ( /\ lastCall.op = "identify_user"
      /\ QueryEmbedding(lastCall) # NoEmbedding
      /\ Cardinality(Tied(QueryEmbedding(lastCall))) > 1 )
    => \E i \in Tied(QueryEmbedding(lastCall)) :
           /\ \A j \in Tied(QueryEmbedding(lastCall)) : i <= j
           /\ lastCall.identity = known_faces[i].user_id

\* Two users hold the same embedding, a frame of that face has been
\* identified, and the user returned is the one the index lists first.
C29_Witness ==
    /\ lastCall.op = "identify_user"
    /\ QueryEmbedding(lastCall) # NoEmbedding
    /\ Tied(QueryEmbedding(lastCall)) = { 1, 2 }
    /\ lastCall.identity = known_faces[1].user_id
    /\ lastCall.identity # known_faces[2].user_id

====
